---------------------------- MODULE Spec2Model ----------------------------
(***************************************************************************)
(* Basket-to-order lifecycle of the Gico menu backend                      *)
(* (backend/menu/views.py, backend/api/urls.py).                           *)
(*                                                                         *)
(* The relational store is the state: the CustomUser, session, MenuItem,   *)
(* Order and Basket tables, each a function from primary key to row.       *)
(* Every view method is an action.  Spec runs each request to completion   *)
(* as one step; SpecDetail does the same with the full range of            *)
(* attach-details payloads, SpecCatalog and SpecItems with the catalog     *)
(* views, SpecRoutes with the URL dispatch of /order/<id>/.  SpecConc runs *)
(* add-to-basket statement by statement in two workers against the shared  *)
(* store; SpecRace does so for add, remove and finalize.                   *)
(***************************************************************************)
EXTENDS Integers, FiniteSets, TLC

(***************************************************************************)
(* Bounds of the model.                                                    *)
(***************************************************************************)
MaxOrders == 2        \* primary keys the Order table may hand out
MaxLines == 2         \* primary keys the Basket table may hand out
MaxSessions == 1      \* session keys the session store may issue
MaxQty == 2           \* largest quantity a line is followed to
MaxPuts == 1          \* catalog updates followed
MaxAttach == 2        \* attach-details requests followed in SpecDetail
MaxConcReqs == 3      \* requests started in SpecConc
MaxItems == 3         \* catalog rows followed
MaxRaceReqs == 3      \* requests started in SpecRace

None == 0             \* Python's None; primary keys and session keys start at 1

Users == {1, 2}       \* registered accounts present from the start
Staff == {2}          \* the accounts with is_staff
ItemIds == {1, 2}     \* catalog rows present from the start
ReqItemIds == {1, 2, 3}   \* item ids a request may carry; 3 is in no catalog row
Shoppers == Users \ Staff   \* the accounts that send basket and order requests
Counts == 0 .. MaxQty     \* the counts a request carries; 0 is the default of an absent count
PriceVals == {20}
DiscountVals == {0}
DetailVals == {"A", "B"}
OrderFields == {"payment_type", "city", "address", "delivery_type"}
DataKeys == {"fullName", "paymentType", "city", "address", "deliveryType"}
Workers == {1, 2}
Blank == -1           \* the empty string as a session_key value
\* what the session_key column of a registered account may hold: NULL or ''
RegisteredKeys == {None, Blank}

VARIABLES
    customers,    \* CustomUser table: id -> [session_key, fullName, is_staff]
    sessions,     \* session keys issued by the session store
    items,        \* MenuItem table: id -> [price, discount, archived]
    orders,       \* Order table: id -> row
    lines,        \* Basket table: id -> [order, item, quantity, sale_price]
    nextCustomer, \* next primary key of CustomUser
    nextOrder,    \* next primary key of Order
    nextLine,     \* next primary key of Basket
    puts,         \* catalog updates done
    attaches,     \* attach-details requests done
    last,         \* the request just served and its response
    procs,        \* SpecConc: each worker's position and locals
    started       \* SpecConc: requests started

vars == <<customers, sessions, items, orders, lines, nextCustomer, nextOrder,
          nextLine, puts, attaches, last, procs, started>>

store == <<customers, sessions, items, orders, lines, nextCustomer, nextOrder,
           nextLine>>

----------------------------------------------------------------------------
(***************************************************************************)
(* Helpers: queryset operations.                                           *)
(***************************************************************************)
Min(S) == CHOOSE x \in S : \A y \in S : x <= y

\* QuerySet.first(): the row with the least primary key, or None
First(S) == IF S = {} THEN None ELSE Min(S)

Without(f, k) == [x \in DOMAIN f \ {k} |-> f[x]]

\* dict.get(key, default) on the request body
Get(data, key, default) == IF key \in DOMAIN data THEN data[key] ELSE default

\* Order.objects.filter(customer=c, status='active')
ActiveOrdersIn(ords, c) ==
    {o \in DOMAIN ords : ords[o].customer = c /\ ords[o].status = "active"}

ActiveOrders(c) == ActiveOrdersIn(orders, c)

\* a lookup that filters on the wrong status
MatchingOrdersPending(ords, c) ==
    {o \in DOMAIN ords : ords[o].customer = c /\ ords[o].status = "pending"
                            /\ ords[o].total_amount = 0}

\* the lookup of Order.objects.get_or_create(customer=c, status='active', total_amount=0)
MatchingOrdersIn(ords, c) ==
    {o \in ActiveOrdersIn(ords, c) : ords[o].total_amount = 0}

\* Basket.objects.filter(order=o)
LinesOfIn(lns, o) == {l \in DOMAIN lns : lns[l].order = o}

LinesOf(o) == LinesOfIn(lines, o)

\* Basket.objects.filter(order=o, item=i)
LinesForIn(lns, o, i) == {l \in LinesOfIn(lns, o) : lns[l].item = i}

LinesFor(o, i) == LinesForIn(lines, o, i)

\* CustomUser.objects.filter(session_key=k)
CustomersWithIn(custs, k) == {c \in DOMAIN custs : custs[c].session_key = k}

\* a fresh Order row as get_or_create creates it
NewOrder(c) ==
    [customer |-> c, status |-> "active", total_amount |-> 0,
     payment_type |-> "", city |-> "", address |-> "", delivery_type |-> ""]

\* a fresh Basket row as get_or_create creates it (quantity and sale_price at
\* the model's defaults)
NewLine(o, i) == [order |-> o, item |-> i, quantity |-> 0, sale_price |-> 0]

\* a fresh anonymous CustomUser row bound to a session key
NewCustomer(k) == [session_key |-> k, fullName |-> "", is_staff |-> FALSE]

\* line 115: sale_price = item.price - item.discount
SalePrice(it) == it.price - it.discount

\* the serialized lines of a basket
Serialize(lns, S) ==
    {[item |-> lns[l].item, quantity |-> lns[l].quantity,
      sale_price |-> lns[l].sale_price] : l \in S}

RECURSIVE SumLines(_, _)
SumLines(lns, S) ==
    IF S = {} THEN 0
    ELSE LET l == Min(S)
         IN lns[l].sale_price * lns[l].quantity + SumLines(lns, S \ {l})

\* Order.calculate_total_amount(): sum of sale_price * quantity over the order's lines
calculate_total_amount(lns, o) == SumLines(lns, LinesOfIn(lns, o))

----------------------------------------------------------------------------
(***************************************************************************)
(* Requests.  A caller is authenticated (user is an account id) or         *)
(* anonymous (user is None) with the session key of its cookie, None when  *)
(* it has no session yet.                                                  *)
(***************************************************************************)
Anonymous == {[user |-> None, session_key |-> k] : k \in sessions \cup {None}}

\* the callers of the basket and order views
Requests == {[user |-> u, session_key |-> None] : u \in Shoppers} \cup Anonymous

\* the callers of the catalog views
StaffRequests == {[user |-> u, session_key |-> None] : u \in Users} \cup Anonymous

\* lines 104-111 and 127-134: the customer a basket write runs as.  An
\* anonymous caller without a session key gets one from request.session.save();
\* CustomUser.objects.get_or_create(session_key=...) finds or creates the row.
ResolveWriter(req) ==
    IF req.user # None
    THEN [ok |-> TRUE, cust |-> req.user, customers |-> customers,
          sessions |-> sessions, nextCustomer |-> nextCustomer, key |-> None]
    ELSE LET key == IF req.session_key = None
                    THEN Cardinality(sessions) + 1
                    ELSE req.session_key
             found == CustomersWithIn(customers, key)
         IN  IF Cardinality(found) > 1
             THEN [ok |-> FALSE, cust |-> None, customers |-> customers,
                   sessions |-> sessions \cup {key},
                   nextCustomer |-> nextCustomer, key |-> key]
             ELSE IF found # {}
             THEN [ok |-> TRUE, cust |-> Min(found), customers |-> customers,
                   sessions |-> sessions \cup {key},
                   nextCustomer |-> nextCustomer, key |-> key]
             ELSE [ok |-> TRUE, cust |-> nextCustomer,
                   customers |-> customers @@ (nextCustomer :> NewCustomer(key)),
                   sessions |-> sessions \cup {key},
                   nextCustomer |-> nextCustomer + 1, key |-> key]

\* whether ResolveWriter stays inside the model's bounds
WriterInBounds(req) ==
    req.user = None /\ req.session_key = None => Cardinality(sessions) < MaxSessions

\* lines 164 and 170: customer_identifier = request.user.id (None for AnonymousUser)
ResolveUserId(req) == req.user

\* a served request: the view method, the count of its body (0 when it has none),
\* the HTTP status, the exception that ended the handler ("" when it returned),
\* the order it names and the lines it lists
Response(op, count, status, exc, orderId, body) ==
    [op |-> op, count |-> count, status |-> status, exc |-> exc,
     orderId |-> orderId, body |-> body]

\* a worker between requests
Idle ==
    [pc |-> "idle", req |-> [user |-> None, session_key |-> None], id |-> None,
     count |-> 0, item |-> [price |-> 0, discount |-> 0, archived |-> FALSE],
     cust |-> None, order |-> None, line |-> None, row |-> NewLine(None, None),
     status |-> 0, exc |-> "", order0 |-> None, q0 |-> 0,
     op |-> "", orow |-> NewOrder(None), total |-> 0]

----------------------------------------------------------------------------
Init ==
    /\ \E k \in RegisteredKeys :
          customers = [u \in Users |->
                         [session_key |-> k, fullName |-> "", is_staff |-> u \in Staff]]
    /\ sessions = {}
    /\ items = (1 :> [price |-> 10, discount |-> 2, archived |-> FALSE])
               @@ (2 :> [price |-> 5, discount |-> 0, archived |-> FALSE])
    /\ orders = <<>>
    /\ lines = <<>>
    /\ nextCustomer = 3
    /\ nextOrder = 1
    /\ nextLine = 1
    /\ puts = 0
    /\ attaches = 0
    /\ last = Response("none", 0, 0, "", None, {})
    /\ procs = [p \in Workers |-> Idle]
    /\ started = 0


----------------------------------------------------------------------------
(***************************************************************************)
(* Rows written by the handlers.                                           *)
(***************************************************************************)
\* a save that assigns the count instead of adding it
SavedLineAssign(row, it, count) ==
    [row EXCEPT !.sale_price = SalePrice(it), !.quantity = count]

\* lines 115-117: the Basket row that order_list.save() writes
SavedLine(row, it, count) ==
    [row EXCEPT !.sale_price = SalePrice(it), !.quantity = @ + count]

\* lines 139-140: the Basket row that basket_item.save() writes
DecrementedLine(row, count) == [row EXCEPT !.quantity = @ - count]

\* a finalize that forgets the total
FinalizedOrderNoTotal(row, total) == [row EXCEPT !.status = "pending"]

\* lines 173-175: the Order row that finalize saves
FinalizedOrder(row, total) == [row EXCEPT !.total_amount = total, !.status = "pending"]

\* an attach that puts the order back into the basket
AttachedOrderReopen(row, data) == [row EXCEPT !.status = "active"]

\* an attach that replaces the row's fields instead of merging into them
AttachedOrderReplace(row, data) ==
    [row EXCEPT !.payment_type = Get(data, "paymentType", ""),
                !.city = Get(data, "city", ""),
                !.address = Get(data, "address", ""),
                !.delivery_type = Get(data, "deliveryType", ""),
                !.status = "payment"]

\* lines 207-214: the Order row that attach-details saves
AttachedOrder(row, data) ==
    [row EXCEPT !.payment_type = Get(data, "paymentType", @),
                !.city = Get(data, "city", @),
                !.address = Get(data, "address", @),
                !.delivery_type = Get(data, "deliveryType", @),
                !.total_amount = row.total_amount,
                !.status = "payment"]

\* line 206: order.customer.update_name(data.get('fullName', order.customer.get_fullName()))
RenamedCustomer(row, data) == [row EXCEPT !.fullName = Get(data, "fullName", @)]

\* serializer.save() of a partial update: the fields of the body replace the row's
UpdatedItem(row, data) == [f \in DOMAIN row |-> Get(data, f, row[f])]

\* a comparison that keeps a line whose quantity drops to zero
KeepsLineInclusive(count, quantity) == count <= quantity

\* line 138: count < basket_item.quantity
KeepsLine(count, quantity) == count < quantity

\* quantities above MaxQty are not followed
QtyInBounds(q) == q <= MaxQty

----------------------------------------------------------------------------
(***************************************************************************)
(* The handlers, each run to completion as one step.                       *)
(***************************************************************************)
\* lines 90-99: the response of GET /basket/ against a store
BasketGetResponse(custs, ords, lns, req) ==
    LET c == IF req.user # None
             THEN req.user
             ELSE First(CustomersWithIn(custs, req.session_key))
        o == First(ActiveOrdersIn(ords, c))
    IN  IF c = None
        THEN Response("get", 0, 500, "AttributeError", None, {})
        ELSE Response("get", 0, 200, "", None, Serialize(lns, LinesOfIn(lns, o)))

\* BasketAPIView.get (GET /basket/)
BasketAPIView_get(req) ==
    /\ last' = BasketGetResponse(customers, orders, lines, req)
    /\ UNCHANGED <<store, puts, attaches, procs, started>>

\* BasketAPIView.post (POST /basket/)
BasketAPIView_post(req, id, count) ==
    IF id \notin DOMAIN items
    THEN /\ last' = Response("add", count, 500, "DoesNotExist", None, {})
         /\ UNCHANGED <<store, puts, attaches, procs, started>>
    ELSE
    LET w == ResolveWriter(req)
        found == MatchingOrdersIn(orders, w.cust)
        o == IF found = {} THEN nextOrder ELSE Min(found)
        ords == IF found = {} THEN orders @@ (nextOrder :> NewOrder(w.cust)) ELSE orders
        lfound == LinesForIn(lines, o, id)
        l == IF lfound = {} THEN nextLine ELSE Min(lfound)
        lns == IF lfound = {} THEN lines @@ (nextLine :> NewLine(o, id)) ELSE lines
        row == SavedLine(lns[l], items[id], count)
    IN  /\ WriterInBounds(req)
        /\ customers' = w.customers
        /\ sessions' = w.sessions
        /\ nextCustomer' = w.nextCustomer
        /\ UNCHANGED <<items, puts, attaches, procs, started>>
        /\ IF ~w.ok \/ Cardinality(found) > 1
           THEN /\ last' = Response("add", count, 500,
                                    "MultipleObjectsReturned", None, {})
                /\ UNCHANGED <<orders, lines, nextOrder, nextLine>>
           ELSE /\ found = {} => nextOrder <= MaxOrders
                /\ orders' = ords
                /\ nextOrder' = IF found = {} THEN nextOrder + 1 ELSE nextOrder
                /\ IF Cardinality(lfound) > 1
                   THEN /\ last' = Response("add", count, 500,
                                            "MultipleObjectsReturned", None, {})
                        /\ UNCHANGED <<lines, nextLine>>
                   ELSE /\ lfound = {} => nextLine <= MaxLines
                        /\ QtyInBounds(row.quantity)
                        /\ lines' = [lns EXCEPT ![l] = row]
                        /\ nextLine' = IF lfound = {} THEN nextLine + 1 ELSE nextLine
                        /\ last' = Response("add", count, 201, "", o,
                                            Serialize(lines', {l}))

\* BasketAPIView.delete (DELETE /basket/<id>/)
BasketAPIView_delete(req, id, count) ==
    LET w == ResolveWriter(req)
        o == First(ActiveOrdersIn(orders, w.cust))
        l == First(LinesForIn(lines, o, id))
        rest == Without(lines, l)
    IN  /\ WriterInBounds(req)
        /\ customers' = w.customers
        /\ sessions' = w.sessions
        /\ nextCustomer' = w.nextCustomer
        /\ UNCHANGED <<items, nextOrder, nextLine, puts, attaches, procs, started>>
        /\ IF ~w.ok
           THEN /\ last' = Response("remove", count, 500,
                                    "MultipleObjectsReturned", None, {})
                /\ UNCHANGED <<orders, lines>>
           ELSE IF l = None
           THEN /\ last' = Response("remove", count, 500,
                                    "AttributeError", None, {})
                /\ UNCHANGED <<orders, lines>>
           ELSE IF KeepsLine(count, lines[l].quantity)
           THEN /\ QtyInBounds(lines[l].quantity - count)
                /\ lines' = [lines EXCEPT ![l] = DecrementedLine(@, count)]
                /\ orders' = orders
                /\ last' = Response("remove", count, 200, "", o,
                                    Serialize(lines', LinesOfIn(lines', o)))
           ELSE IF LinesOfIn(rest, o) = {}
           THEN /\ lines' = rest
                /\ orders' = Without(orders, o)
                /\ last' = Response("remove", count, 200, "", o, {})
           ELSE /\ lines' = rest
                /\ orders' = orders
                /\ last' = Response("remove", count, 200, "", o,
                                    Serialize(rest, LinesOfIn(rest, o)))

\* OrderAPIView.post (POST /order/): finalize
OrderAPIView_post(req) ==
    LET c == ResolveUserId(req)
        o == First(ActiveOrders(c))
    IN  /\ UNCHANGED <<customers, sessions, items, lines, nextCustomer, nextOrder,
                       nextLine, puts, attaches, procs, started>>
        /\ IF o # None
           THEN /\ orders' = [orders EXCEPT
                                ![o] = FinalizedOrder(@, calculate_total_amount(lines, o))]
                /\ last' = Response("finalize", 0, 200, "", o, {})
           ELSE /\ orders' = orders
                /\ last' = Response("finalize", 0, 500, "", None, {})

\* OrderDetailAPIView.post: attach delivery and payment details
OrderDetailAPIView_post(id, data) ==
    /\ IF id \in DOMAIN orders
       THEN /\ orders' = [orders EXCEPT ![id] = AttachedOrder(@, data)]
            /\ customers' = [customers EXCEPT
                               ![orders[id].customer] = RenamedCustomer(@, data)]
            /\ last' = Response("attach", 0, 200, "", id, {})
       ELSE /\ UNCHANGED <<customers, orders>>
            /\ last' = Response("attach", 0, 404, "Http404", id, {})
    /\ UNCHANGED <<sessions, items, lines, nextCustomer, nextOrder, nextLine, puts,
                   procs, started>>

\* ItemView.put: catalog update of one item
ItemView_put(req, pk, data) ==
    /\ puts < MaxPuts
    /\ puts' = puts + 1
    /\ UNCHANGED <<customers, sessions, orders, lines, nextCustomer, nextOrder,
                   nextLine, attaches, procs, started>>
    /\ IF req.user = None \/ ~customers[req.user].is_staff
       THEN /\ items' = items
            /\ last' = Response("put", 0, 403, "", None, {})
       ELSE IF pk \notin DOMAIN items
       THEN /\ items' = items
            /\ last' = Response("put", 0, 404, "", None, {})
       ELSE /\ items' = [items EXCEPT ![pk] = UpdatedItem(@, data)]
            /\ last' = Response("put", 0, 200, "", None, {})

\* request.user.is_staff (False for AnonymousUser)
IsStaff(req) == req.user # None /\ customers[req.user].is_staff

\* MenuItemManagerSerializer.is_valid(): the required fields are present
ValidItem(data) == {"price", "discount"} \subseteq DOMAIN data

\* serializer.save() of a create: the new MenuItem row
CreatedItem(data) ==
    [price |-> data["price"], discount |-> data["discount"], archived |-> FALSE]

\* lines 323-324: item.archived = True; item.save()
ArchivedItem(row) == [row EXCEPT !.archived = TRUE]

\* the primary key the MenuItem table hands out next
NextItemId == Cardinality(DOMAIN items) + 1

\* ItemView.post: create a menu item
ItemView_post(req, data) ==
    /\ UNCHANGED <<customers, sessions, orders, lines, nextCustomer, nextOrder,
                   nextLine, puts, attaches, procs, started>>
    /\ IF ValidItem(data)
       THEN /\ Cardinality(DOMAIN items) < MaxItems
            /\ items' = items @@ (NextItemId :> CreatedItem(data))
            /\ last' = Response("create", 0, 201, "", None, {})
       ELSE /\ items' = items
            /\ last' = Response("create", 0, 400, "", None, {})

\* ItemView.delete: archive a menu item
ItemView_delete(req, id) ==
    /\ UNCHANGED <<customers, sessions, orders, lines, nextCustomer, nextOrder,
                   nextLine, puts, attaches, procs, started>>
    /\ IF ~IsStaff(req)
       THEN /\ items' = items
            /\ last' = Response("archive", 0, 403, "", None, {})
       ELSE IF id \notin DOMAIN items
       THEN /\ items' = items
            /\ last' = Response("archive", 0, 404, "", None, {})
       ELSE /\ items' = [items EXCEPT ![id] = ArchivedItem(@)]
            /\ last' = Response("archive", 0, 204, "", None, {})

----------------------------------------------------------------------------
(***************************************************************************)
(* Request bodies.                                                         *)
(***************************************************************************)
\* every body over the keys K with values in V, each key present or absent
Bodies(K, V) == UNION {[S -> V] : S \in SUBSET K}

\* attach-details bodies of Spec: no field present
DataSmall == {<<>>}

\* attach-details bodies of SpecDetail: any set of fields present, with one value
DataFull == {[k \in S |-> v] : S \in SUBSET DataKeys, v \in DetailVals}

PutData ==
    {d \in Bodies({"price", "discount"}, PriceVals \cup DiscountVals) :
        /\ "price" \in DOMAIN d => d["price"] \in PriceVals
        /\ "discount" \in DOMAIN d => d["discount"] \in DiscountVals}

\* bodies of ItemView.post: a complete item, or nothing
PostData == {[price |-> p, discount |-> d] : p \in PriceVals, d \in DiscountVals}
                \cup {<<>>}

OrderIds == 1 .. (MaxOrders + 1)

Next ==
    \/ \E req \in Requests : BasketAPIView_get(req)
    \/ \E req \in Requests, id \in ReqItemIds, count \in Counts :
          BasketAPIView_post(req, id, count)
    \/ \E req \in Requests, id \in ReqItemIds, count \in Counts :
          BasketAPIView_delete(req, id, count)
    \/ \E req \in Requests : OrderAPIView_post(req)
    \/ \E id \in OrderIds, data \in DataSmall :
          /\ OrderDetailAPIView_post(id, data)
          /\ UNCHANGED attaches

Spec == Init /\ [][Next]_vars

\* add-to-basket requests and catalog updates
NextCatalog ==
    \/ \E req \in Requests, id \in ReqItemIds, count \in Counts :
          BasketAPIView_post(req, id, count)
    \/ \E req \in StaffRequests, pk \in ReqItemIds, data \in PutData :
          ItemView_put(req, pk, data)

SpecCatalog == Init /\ [][NextCatalog]_vars

\* the catalog mutations: create, update, archive
NextItems ==
    \/ \E req \in StaffRequests, data \in PostData : ItemView_post(req, data)
    \/ \E req \in StaffRequests, pk \in ReqItemIds, data \in PutData :
          ItemView_put(req, pk, data)
    \/ \E req \in StaffRequests, id \in ReqItemIds : ItemView_delete(req, id)

SpecItems == Init /\ [][NextItems]_vars

\* orders of the registered shoppers, built from one item, finalized, and given
\* details with every body
NextDetail ==
    \/ \E req \in Requests : req.user # None /\ BasketAPIView_post(req, 1, 1)
    \/ \E req \in Requests : req.user # None /\ OrderAPIView_post(req)
    \/ \E id \in OrderIds, data \in DataFull :
          /\ attaches < MaxAttach
          /\ attaches' = attaches + 1
          /\ OrderDetailAPIView_post(id, data)

\* the registered accounts hold NULL in session_key; no step of NextDetail reads
\* the column, its callers being authenticated
RegisteredNull == \A u \in Users : customers[u].session_key = None

InitDetail == Init /\ RegisteredNull

SpecDetail == InitDetail /\ [][NextDetail]_vars

----------------------------------------------------------------------------
(***************************************************************************)
(* URL dispatch (backend/api/urls.py).                                     *)
(***************************************************************************)
\* urlpatterns: the view class each order path is routed to
urlpatterns ==
    [path \in {"order/", "order/<int:id>/"} |-> "OrderAPIView"]

\* a POST to an order path: as_view() calls the post method of the routed class
\* with the path's id as a keyword argument
Dispatch_post(path, req, id, data) ==
    IF urlpatterns[path] = "OrderAPIView"
    THEN OrderAPIView_post(req)
    ELSE OrderDetailAPIView_post(id, data) /\ UNCHANGED attaches

\* add-to-basket requests and POSTs to /order/<id>/
NextRoutes ==
    \/ \E req \in Requests, id \in ReqItemIds, count \in Counts :
          BasketAPIView_post(req, id, count)
    \/ \E req \in Requests, id \in OrderIds, data \in DataSmall :
          Dispatch_post("order/<int:id>/", req, id, data)

SpecRoutes == Init /\ [][NextRoutes]_vars

----------------------------------------------------------------------------
(***************************************************************************)
(* BasketAPIView.post statement by statement.  Each worker serves one      *)
(* request at a time; every step is one statement against the store, and   *)
(* the steps of the two workers interleave.  The handler opens no          *)
(* transaction and takes no lock, and the tables carry no uniqueness       *)
(* constraint, so get_or_create is a SELECT followed, when it finds no     *)
(* row, by an INSERT.  order0 and q0 record what the request met when it   *)
(* arrived; no statement reads them.                                       *)
(***************************************************************************)
\* the customer the caller is known as when the request arrives, None when it has
\* no customer row yet
KnownCustomer(req) ==
    IF req.user # None THEN req.user
    ELSE First(CustomersWithIn(customers, req.session_key) \ Users)

SetProc(p, rec) == procs' = [procs EXCEPT ![p] = rec]

\* the response leaves the worker
Finish(w, status, exc) == [w EXCEPT !.pc = "done", !.status = status, !.exc = exc]

\* a request arrives at an idle worker
StartPost(p, req, id, count) ==
    LET o == First(ActiveOrders(KnownCustomer(req)))
        l == First(LinesFor(o, id))
    IN  /\ procs[p].pc = "idle"
        /\ started < MaxConcReqs
        /\ started' = started + 1
        /\ SetProc(p, [Idle EXCEPT !.pc = "item", !.op = "add", !.req = req,
                                   !.id = id, !.count = count, !.order0 = o,
                                   !.q0 = IF l = None THEN 0 ELSE lines[l].quantity])
        /\ UNCHANGED <<store, puts, attaches, last>>

\* line 102: MenuItem.objects.get(pk=...); lines 104-105: request.user
LoadItem(p) ==
    LET w == procs[p]
    IN  /\ w.pc = "item"
        /\ SetProc(p, IF w.id \notin DOMAIN items
                      THEN Finish(w, 500, "DoesNotExist")
                      ELSE IF w.req.user # None
                      THEN [w EXCEPT !.pc = "order_get", !.item = items[w.id],
                                     !.cust = w.req.user]
                      ELSE [w EXCEPT !.pc = "customer", !.item = items[w.id]])
        /\ UNCHANGED <<store, puts, attaches, last, started>>

\* lines 107-111: the session key and CustomUser.objects.get_or_create
LoadCustomer(p) ==
    LET w == procs[p]
        r == ResolveWriter(w.req)
    IN  /\ w.pc = "customer"
        /\ WriterInBounds(w.req)
        /\ customers' = r.customers
        /\ sessions' = r.sessions
        /\ nextCustomer' = r.nextCustomer
        /\ SetProc(p, IF r.ok
                      THEN [w EXCEPT !.pc = "order_get", !.cust = r.cust]
                      ELSE Finish(w, 500, "MultipleObjectsReturned"))
        /\ UNCHANGED <<items, orders, lines, nextOrder, nextLine, puts, attaches,
                       last, started>>

\* line 113, the SELECT of Order.objects.get_or_create
OrderGet(p) ==
    LET w == procs[p]
        found == MatchingOrdersIn(orders, w.cust)
    IN  /\ w.pc = "order_get"
        /\ SetProc(p, IF found = {} THEN [w EXCEPT !.pc = "order_create"]
                      ELSE IF Cardinality(found) = 1
                      THEN [w EXCEPT !.pc = "line_get", !.order = Min(found)]
                      ELSE Finish(w, 500, "MultipleObjectsReturned"))
        /\ UNCHANGED <<store, puts, attaches, last, started>>

\* line 113, the INSERT of Order.objects.get_or_create
OrderCreate(p) ==
    LET w == procs[p]
    IN  /\ w.pc = "order_create"
        /\ nextOrder <= MaxOrders
        /\ orders' = orders @@ (nextOrder :> NewOrder(w.cust))
        /\ nextOrder' = nextOrder + 1
        /\ SetProc(p, [w EXCEPT !.pc = "line_get", !.order = nextOrder])
        /\ UNCHANGED <<customers, sessions, items, lines, nextCustomer, nextLine,
                       puts, attaches, last, started>>

\* line 114, the SELECT of Basket.objects.get_or_create
LineGet(p) ==
    LET w == procs[p]
        found == LinesForIn(lines, w.order, w.id)
    IN  /\ w.pc = "line_get"
        /\ SetProc(p, IF found = {} THEN [w EXCEPT !.pc = "line_create"]
                      ELSE IF Cardinality(found) = 1
                      THEN [w EXCEPT !.pc = "save", !.line = Min(found),
                                     !.row = lines[Min(found)]]
                      ELSE Finish(w, 500, "MultipleObjectsReturned"))
        /\ UNCHANGED <<store, puts, attaches, last, started>>

\* line 114, the INSERT of Basket.objects.get_or_create
LineCreate(p) ==
    LET w == procs[p]
    IN  /\ w.pc = "line_create"
        /\ IF w.order \in DOMAIN orders
           THEN /\ nextLine <= MaxLines
                /\ lines' = lines @@ (nextLine :> NewLine(w.order, w.id))
                /\ nextLine' = nextLine + 1
                /\ SetProc(p, [w EXCEPT !.pc = "save", !.line = nextLine,
                                        !.row = NewLine(w.order, w.id)])
           ELSE /\ UNCHANGED <<lines, nextLine>>
                /\ SetProc(p, Finish(w, 500, "IntegrityError"))
        /\ UNCHANGED <<customers, sessions, items, orders, nextCustomer, nextOrder,
                       puts, attaches, last, started>>

\* Model.save() of a Basket row read earlier: an UPDATE of the whole row, and an
\* INSERT under the same primary key when the row is gone meanwhile
WrittenLine(l, row) ==
    IF l \in DOMAIN lines THEN [lines EXCEPT ![l] = row] ELSE lines @@ (l :> row)

\* the INSERT of a row whose order is gone violates the foreign key
WriteFails(l, row) == l \notin DOMAIN lines /\ row.order \notin DOMAIN orders

\* lines 115-118: the row the worker holds is changed and written back whole
SaveLine(p) ==
    LET w == procs[p]
        row == SavedLine(w.row, w.item, w.count)
    IN  /\ w.pc = "save"
        /\ QtyInBounds(row.quantity)
        /\ IF WriteFails(w.line, row)
           THEN /\ lines' = lines
                /\ SetProc(p, Finish(w, 500, "IntegrityError"))
           ELSE /\ lines' = WrittenLine(w.line, row)
                /\ SetProc(p, Finish([w EXCEPT !.row = row], 201, ""))
        /\ UNCHANGED <<customers, sessions, items, orders, nextCustomer, nextOrder,
                       nextLine, puts, attaches, last, started>>

\* the worker is free for the next request
Return(p) ==
    /\ procs[p].pc = "done"
    /\ SetProc(p, Idle)
    /\ UNCHANGED <<store, puts, attaches, last, started>>

NextConc ==
    \/ \E p \in Workers, req \in Requests, id \in ReqItemIds, count \in Counts :
          StartPost(p, req, id, count)
    \/ \E p \in Workers : LoadItem(p)
    \/ \E p \in Workers : LoadCustomer(p)
    \/ \E p \in Workers : OrderGet(p)
    \/ \E p \in Workers : OrderCreate(p)
    \/ \E p \in Workers : LineGet(p)
    \/ \E p \in Workers : LineCreate(p)
    \/ \E p \in Workers : SaveLine(p)
    \/ \E p \in Workers : Return(p)

SpecConc == Init /\ [][NextConc]_vars

----------------------------------------------------------------------------
(***************************************************************************)
(* BasketAPIView.delete and OrderAPIView.post statement by statement, for  *)
(* an authenticated caller, next to the steps of BasketAPIView.post.       *)
(* Deleting an Order row deletes its Basket rows with it.                  *)
(***************************************************************************)
RaceUsers == {1}          \* the account whose requests race
RaceRemoveIds == {1}      \* the item the remove requests name
RaceCounts == {1}         \* the count the add and remove requests carry

\* an add-to-basket request arrives at an idle worker
StartAdd(p, req, id, count) ==
    /\ procs[p].pc = "idle"
    /\ started < MaxRaceReqs
    /\ started' = started + 1
    /\ SetProc(p, [Idle EXCEPT !.pc = "item", !.op = "add", !.req = req,
                               !.id = id, !.count = count])
    /\ UNCHANGED <<store, puts, attaches, last>>

\* lines 124-128: a remove-from-basket request arrives at an idle worker
StartDelete(p, req, id, count) ==
    /\ procs[p].pc = "idle"
    /\ started < MaxRaceReqs
    /\ started' = started + 1
    /\ SetProc(p, [Idle EXCEPT !.pc = "r_order", !.op = "remove", !.req = req,
                               !.id = id, !.count = count, !.cust = req.user])
    /\ UNCHANGED <<store, puts, attaches, last>>

\* line 136: Order.objects.filter(customer=..., status='active').first()
DeleteOrderGet(p) ==
    LET w == procs[p]
    IN  /\ w.pc = "r_order"
        /\ SetProc(p, [w EXCEPT !.pc = "r_line",
                                !.order = First(ActiveOrders(w.cust))])
        /\ UNCHANGED <<store, puts, attaches, last, started>>

\* lines 137-138: Basket.objects.filter(order=order, item_id=item_id).first() and
\* the comparison of count with its quantity
DeleteLineGet(p) ==
    LET w == procs[p]
        l == First(LinesFor(w.order, w.id))
    IN  /\ w.pc = "r_line"
        /\ SetProc(p, IF l = None
                      THEN Finish(w, 500, "AttributeError")
                      ELSE [w EXCEPT !.line = l, !.row = lines[l],
                                     !.pc = IF KeepsLine(w.count, lines[l].quantity)
                                            THEN "r_save" ELSE "r_delete"])
        /\ UNCHANGED <<store, puts, attaches, last, started>>

\* lines 139-140: basket_item.quantity -= count; basket_item.save()
DeleteSave(p) ==
    LET w == procs[p]
        row == DecrementedLine(w.row, w.count)
    IN  /\ w.pc = "r_save"
        /\ IF WriteFails(w.line, row)
           THEN /\ lines' = lines
                /\ SetProc(p, Finish(w, 500, "IntegrityError"))
           ELSE /\ lines' = WrittenLine(w.line, row)
                /\ SetProc(p, Finish([w EXCEPT !.row = row], 200, ""))
        /\ UNCHANGED <<customers, sessions, items, orders, nextCustomer, nextOrder,
                       nextLine, puts, attaches, last, started>>

\* line 142: basket_item.delete()
DeleteLine(p) ==
    LET w == procs[p]
    IN  /\ w.pc = "r_delete"
        /\ lines' = Without(lines, w.line)
        /\ SetProc(p, [w EXCEPT !.pc = "r_exists"])
        /\ UNCHANGED <<customers, sessions, items, orders, nextCustomer, nextOrder,
                       nextLine, puts, attaches, last, started>>

\* lines 143-144: Basket.objects.filter(order=order).exists()
DeleteExists(p) ==
    LET w == procs[p]
    IN  /\ w.pc = "r_exists"
        /\ SetProc(p, IF LinesOf(w.order) # {}
                      THEN Finish(w, 200, "")
                      ELSE [w EXCEPT !.pc = "r_order_delete"])
        /\ UNCHANGED <<store, puts, attaches, last, started>>

\* line 145: order.delete(), which takes the order's Basket rows with it
DeleteOrder(p) ==
    LET w == procs[p]
    IN  /\ w.pc = "r_order_delete"
        /\ orders' = Without(orders, w.order)
        /\ lines' = [l \in DOMAIN lines \ LinesOf(w.order) |-> lines[l]]
        /\ SetProc(p, Finish(w, 200, ""))
        /\ UNCHANGED <<customers, sessions, items, nextCustomer, nextOrder,
                       nextLine, puts, attaches, last, started>>

\* line 170: a finalize request arrives at an idle worker
StartFinalize(p, req) ==
    /\ procs[p].pc = "idle"
    /\ started < MaxRaceReqs
    /\ started' = started + 1
    /\ SetProc(p, [Idle EXCEPT !.pc = "f_order", !.op = "finalize", !.req = req,
                               !.cust = ResolveUserId(req)])
    /\ UNCHANGED <<store, puts, attaches, last>>

\* lines 171-172: Order.objects.filter(customer=..., status='active').first()
FinalizeOrderGet(p) ==
    LET w == procs[p]
        o == First(ActiveOrders(w.cust))
    IN  /\ w.pc = "f_order"
        /\ SetProc(p, IF o = None
                      THEN Finish(w, 500, "")
                      ELSE [w EXCEPT !.pc = "f_total", !.order = o, !.orow = orders[o]])
        /\ UNCHANGED <<store, puts, attaches, last, started>>

\* line 173: order.calculate_total_amount(), a query over the order's lines
FinalizeTotal(p) ==
    LET w == procs[p]
    IN  /\ w.pc = "f_total"
        /\ SetProc(p, [w EXCEPT !.pc = "f_save",
                                !.total = calculate_total_amount(lines, w.order)])
        /\ UNCHANGED <<store, puts, attaches, last, started>>

\* lines 174-175: order.status = 'pending'; order.save() writes the row read at
\* line 171 back whole
FinalizeSave(p) ==
    LET w == procs[p]
        row == FinalizedOrder(w.orow, w.total)
    IN  /\ w.pc = "f_save"
        /\ orders' = IF w.order \in DOMAIN orders
                     THEN [orders EXCEPT ![w.order] = row]
                     ELSE orders @@ (w.order :> row)
        /\ SetProc(p, Finish([w EXCEPT !.orow = row], 200, ""))
        /\ UNCHANGED <<customers, sessions, items, lines, nextCustomer, nextOrder,
                       nextLine, puts, attaches, last, started>>

RaceRequests == {[user |-> u, session_key |-> None] : u \in RaceUsers}

NextRace ==
    \/ \E p \in Workers, req \in RaceRequests, id \in ItemIds, count \in RaceCounts :
          StartAdd(p, req, id, count)
    \/ \E p \in Workers, req \in RaceRequests, id \in RaceRemoveIds,
          count \in RaceCounts : StartDelete(p, req, id, count)
    \/ \E p \in Workers, req \in RaceRequests : StartFinalize(p, req)
    \/ \E p \in Workers : LoadItem(p)
    \/ \E p \in Workers : OrderGet(p)
    \/ \E p \in Workers : OrderCreate(p)
    \/ \E p \in Workers : LineGet(p)
    \/ \E p \in Workers : LineCreate(p)
    \/ \E p \in Workers : SaveLine(p)
    \/ \E p \in Workers : DeleteOrderGet(p)
    \/ \E p \in Workers : DeleteLineGet(p)
    \/ \E p \in Workers : DeleteSave(p)
    \/ \E p \in Workers : DeleteLine(p)
    \/ \E p \in Workers : DeleteExists(p)
    \/ \E p \in Workers : DeleteOrder(p)
    \/ \E p \in Workers : FinalizeOrderGet(p)
    \/ \E p \in Workers : FinalizeTotal(p)
    \/ \E p \in Workers : FinalizeSave(p)
    \/ \E p \in Workers : Return(p)

SpecRace == Init /\ [][NextRace]_vars


----------------------------------------------------------------------------
(***************************************************************************)
(* Properties of the serial lifecycle (Spec).                              *)
(***************************************************************************)
\* C1: after any sequence of add, remove, finalize and attach-details requests,
\* each run to completion, every customer has at most one order in status 'active'.
C1_SingleActiveOrder ==
    \A c \in DOMAIN customers : Cardinality(ActiveOrders(c)) <= 1

\* a customer with a finalized order has a new active order
C1_Witness ==
    \E c \in DOMAIN customers :
        /\ ActiveOrders(c) # {}
        /\ \E o \in DOMAIN orders :
              orders[o].customer = c /\ orders[o].status = "pending"

\* no (order, item) pair has two Basket rows
C2_UniqueLine ==
    \A l1, l2 \in DOMAIN lines :
        lines[l1].order = lines[l2].order /\ lines[l1].item = lines[l2].item => l1 = l2

\* a served add leaves exactly one row for its (order, item) pair, and the row's
\* quantity is the quantity before (0 when there was no row) plus the count
C2_AddAccumulates ==
    \A req \in Requests, id \in ItemIds, count \in Counts :
        last'.op = "add" /\ last'.status = 201 /\ BasketAPIView_post(req, id, count) =>
            LET o == last'.orderId
                was == LinesFor(o, id)
                now == LinesForIn(lines', o, id)
                q == IF was = {} THEN 0 ELSE lines[Min(was)].quantity
            IN  /\ Cardinality(now) = 1
                /\ \A l \in now : lines'[l].quantity = q + count

\* C2: an (order, item) pair has at most one BasketLine in every reachable state,
\* and repeated adds of an item to an active order accumulate in that one line:
\* after adds with counts c1 and c2 its quantity is c1 + c2.
C2_LinesAccumulate == []C2_UniqueLine /\ [][C2_AddAccumulates]_vars

\* an add with count 1 has brought a line to quantity 2: the line was there before
C2_Witness ==
    /\ last.op = "add" /\ last.status = 201 /\ last.count = 1
    /\ \E b \in last.body : b.quantity = 2

\* the sum of sale_price * quantity over the Basket rows of order o, row by row
C4_Total(o) ==
    LET T[n \in 0 .. MaxLines + 1] ==
            IF n = 0 THEN 0
            ELSE T[n - 1] + (IF n \in DOMAIN lines /\ lines[n].order = o
                             THEN lines[n].sale_price * lines[n].quantity
                             ELSE 0)
    IN  T[MaxLines + 1]

\* finalize by a caller whose customer identifier has an active order
C4_FinalizeStep ==
    \A req \in Requests :
        LET o == First(ActiveOrders(ResolveUserId(req)))
        IN  last'.op = "finalize" /\ OrderAPIView_post(req) /\ o # None =>
                /\ orders'[o].total_amount = C4_Total(o)
                /\ orders'[o].status = "pending"
                /\ last'.status = 200 /\ last'.orderId = o
                /\ lines' = lines

\* C4: finalize for a customer identifier that has an active order sets the order's
\* total_amount to the sum over its lines of sale_price * quantity, sets its status
\* to 'pending', returns the order's identifier and leaves its lines unchanged.
C4_Finalize == [][C4_FinalizeStep]_vars

\* the example of the specification: lines (8, 2) and (5, 1) finalized to 21
C4_Witness ==
    /\ last.op = "finalize" /\ last.status = 200
    /\ last.orderId \in DOMAIN orders
    /\ orders[last.orderId].status = "pending"
    /\ orders[last.orderId].total_amount = 21
    /\ Cardinality(LinesOf(last.orderId)) = 2

\* the request the caller of req sends next: the same account, or the same session
FollowUp(req) ==
    IF req.user # None THEN req
    ELSE [user |-> None, session_key |-> ResolveWriter(req).key]

\* remove for a caller whose active order has a line for the item
C5_RemoveStep ==
    \A req \in Requests, id \in ItemIds, count \in Counts :
        LET o == First(ActiveOrders(ResolveWriter(req).cust))
            l == First(LinesFor(o, id))
            get == BasketGetResponse(customers', orders', lines', FollowUp(req))
        IN  last'.op = "remove" /\ o # None /\ l # None
                /\ BasketAPIView_delete(req, id, count) =>
                IF count < lines[l].quantity
                THEN /\ lines' = [lines EXCEPT ![l].quantity = @ - count]
                     /\ orders' = orders
                ELSE /\ DOMAIN lines' = DOMAIN lines \ {l}
                     /\ \A k \in DOMAIN lines' : lines'[k] = lines[k]
                     /\ IF LinesOf(o) = {l}
                        THEN /\ DOMAIN orders' = DOMAIN orders \ {o}
                             /\ \A k \in DOMAIN orders' : orders'[k] = orders[k]
                             /\ get.status = 200 /\ get.body = {}
                        ELSE orders' = orders

\* C5: remove with a count below the line's quantity decrements the quantity and
\* keeps the line; with a count at or above it the line is deleted, and with the
\* order's last line the order, so that the caller's next get-basket returns an
\* empty result and not an error.
C5_Remove == [][C5_RemoveStep]_vars

\* a remove has just deleted the order it names
C5_Witness ==
    /\ last.op = "remove" /\ last.status = 200
    /\ last.orderId # None /\ last.orderId \notin DOMAIN orders

\* add with an item id that is in no catalog row
C9_UnknownItemStep ==
    \A req \in Requests, id \in ReqItemIds, count \in Counts :
        last'.op = "add" /\ id \notin DOMAIN items /\ BasketAPIView_post(req, id, count) =>
            /\ last'.status = 404
            /\ store' = store

\* C9: add-to-basket with an item identifier that is not in the catalog ends in
\* NotFound (a 404) and leaves the store unchanged.
C9_UnknownItemNotFound == [][C9_UnknownItemStep]_vars

\* remove for a caller without an active order, or without a line for the item
C10_RemoveErrorStep ==
    \A req \in Requests, id \in ReqItemIds, count \in Counts :
        LET o == First(ActiveOrders(ResolveWriter(req).cust))
            l == First(LinesFor(o, id))
        IN  /\ last'.op = "remove" /\ o = None /\ BasketAPIView_delete(req, id, count) =>
                /\ last'.status = 500
                /\ orders' = orders /\ lines' = lines
            /\ last'.op = "remove" /\ o # None /\ l = None
                    /\ BasketAPIView_delete(req, id, count) =>
                /\ last'.status = 404
                /\ orders' = orders /\ lines' = lines

\* C10: remove fails with InvalidState (a 5xx) when the customer has no active
\* order and with NotFound (a 404) when the active order has no line for the item;
\* the two outcomes differ, and neither changes an order or a line.
C10_RemoveErrors == [][C10_RemoveErrorStep]_vars

----------------------------------------------------------------------------
(***************************************************************************)
(* Properties of catalog updates (SpecCatalog) and of attach-details       *)
(* (SpecDetail).                                                           *)
(***************************************************************************)
\* a step keeps the sale_price of every line it keeps, and a line it creates has
\* the sale price of its item at that moment
C3_SnapshotStep ==
    /\ \A l \in DOMAIN lines \cap DOMAIN lines' :
          lines'[l].sale_price = lines[l].sale_price
    /\ \A l \in DOMAIN lines' \ DOMAIN lines :
          lines'[l].sale_price = SalePrice(items[lines'[l].item])

\* C3: the sale_price of a BasketLine is item.price - item.discount as of the add
\* that created the line, and it keeps that value through every later catalog
\* update of the item and every later add of the same item to the same order.
C3_PriceSnapshot == [][C3_SnapshotStep]_vars

\* the value a field has after an attach with this body
C6_Merged(data, key, old) == IF key \in DOMAIN data THEN data[key] ELSE old

\* attach-details on an existing order
C6_AttachStep ==
    \A id \in DOMAIN orders, data \in DataFull :
        last'.op = "attach" /\ last'.orderId = id /\ OrderDetailAPIView_post(id, data) =>
            LET c == orders[id].customer
            IN  /\ orders'[id].payment_type
                     = C6_Merged(data, "paymentType", orders[id].payment_type)
                /\ orders'[id].city = C6_Merged(data, "city", orders[id].city)
                /\ orders'[id].address = C6_Merged(data, "address", orders[id].address)
                /\ orders'[id].delivery_type
                     = C6_Merged(data, "deliveryType", orders[id].delivery_type)
                /\ customers'[c].fullName
                     = C6_Merged(data, "fullName", customers[c].fullName)
                /\ orders'[id].total_amount = orders[id].total_amount
                /\ orders'[id].customer = c
                /\ orders'[id].status = "payment"
                /\ lines' = lines
                /\ \A o \in DOMAIN orders \ {id} : orders'[o] = orders[o]

\* C6: attach-details on an existing order overwrites only the fields present in
\* the request, keeps the prior value of every absent field, leaves total_amount
\* and the order's lines unchanged, and sets the status to 'payment'.
C6_PartialUpdate == [][C6_AttachStep]_vars

\* an order whose city a second attach overwrote while its address stayed
C6_Witness ==
    /\ last.op = "attach" /\ last.status = 200
    /\ last.orderId \in DOMAIN orders
    /\ orders[last.orderId].city = "B"
    /\ orders[last.orderId].address = "A"
    /\ orders[last.orderId].status = "payment"
    /\ orders[last.orderId].total_amount = 8

----------------------------------------------------------------------------
(***************************************************************************)
(* Properties of concurrent adds (SpecConc).                               *)
(***************************************************************************)
\* two served adds of one customer
ServedPair(p, q) ==
    /\ p # q
    /\ procs[p].pc = "done" /\ procs[p].status = 201
    /\ procs[q].pc = "done" /\ procs[q].status = 201
    /\ procs[p].cust = procs[q].cust

\* C7: when two add-to-basket calls by the same customer, who has no active order,
\* run concurrently, the final state holds exactly one 'active' order for that
\* customer.
C7_OneActiveOrderAfterRace ==
    \A p, q \in Workers :
        ServedPair(p, q) /\ procs[p].order0 = None /\ procs[q].order0 = None =>
            Cardinality(ActiveOrders(procs[p].cust)) = 1

\* C8: when two add-to-basket calls for the same item on the same active order run
\* concurrently with positive counts c1 and c2 (the line already holding a positive
\* quantity when both arrive), the final state holds exactly one BasketLine
\* for the pair and its quantity has grown by c1 + c2.
C8_NoLostIncrement ==
    \A p, q \in Workers :
        /\ ServedPair(p, q)
        /\ procs[p].id = procs[q].id
        /\ procs[p].count > 0 /\ procs[q].count > 0
        /\ procs[p].order0 # None /\ procs[p].order0 = procs[q].order0
        /\ procs[p].q0 = procs[q].q0 /\ procs[p].q0 > 0
        => LET now == LinesFor(procs[p].order0, procs[p].id)
           IN  /\ Cardinality(now) = 1
               /\ \A l \in now :
                     lines[l].quantity = procs[p].q0 + procs[p].count + procs[q].count

----------------------------------------------------------------------------
(***************************************************************************)
(* Properties of reading the basket (Spec).                                *)
(***************************************************************************)
\* the lines of the active order of the customer the caller writes as
OwnBasket(req) == Serialize(lines, LinesOf(First(ActiveOrders(KnownCustomer(req)))))

C11_GetStep(req) ==
    last'.op = "get" /\ BasketAPIView_get(req) =>
        /\ last'.status = 200
        /\ last'.body = OwnBasket(req)
        /\ store' = store

\* C11: get-basket never ends in an error for want of an active order: for every
\* caller, authenticated or anonymous, including an anonymous caller without a
\* customer record, it returns the lines of the caller's active order, or an empty
\* result when there is none, and it changes no state.
C11_GetNeverFails == [][\A req \in Requests : C11_GetStep(req)]_vars

----------------------------------------------------------------------------
(***************************************************************************)
(* Properties of the URL dispatch (SpecRoutes).                            *)
(***************************************************************************)
C12_RouteStep(req, id) ==
    /\ last'.op \in {"finalize", "attach"}
    /\ id \in DOMAIN orders
    /\ Dispatch_post("order/<int:id>/", req, id, <<>>)
    => /\ id \in DOMAIN orders' /\ orders'[id].status = "payment"
       /\ \A o \in DOMAIN orders :
             ~(orders[o].status = "active" /\ orders'[o].status = "pending")

\* C12: a POST to /order/{id}/ is dispatched to the attach-details operation on the
\* order with that identifier: after it the order {id} has status 'payment', and
\* no order is moved from 'active' to 'pending' by that request.
C12_PostOrderIdAttaches ==
    [][\A req \in Requests, id \in OrderIds : C12_RouteStep(req, id)]_vars

----------------------------------------------------------------------------
(***************************************************************************)
(* Properties of the catalog mutations (SpecItems).                        *)
(***************************************************************************)
CatalogMutation(req) ==
    \/ \E data \in PostData : ItemView_post(req, data)
    \/ \E pk \in ReqItemIds, data \in PutData : ItemView_put(req, pk, data)
    \/ \E id \in ReqItemIds : ItemView_delete(req, id)

C13_MutationStep(req) ==
    /\ last'.op \in {"create", "put", "archive"}
    /\ ~IsStaff(req)
    /\ CatalogMutation(req)
    => last'.status = 403 /\ items' = items

\* C13: every catalog mutation (create, update, archive of a menu item) requested
\* by a caller without the privileged capability ends in Forbidden and leaves the
\* catalog unchanged.
C13_MutationsForbidden == [][\A req \in StaffRequests : C13_MutationStep(req)]_vars

----------------------------------------------------------------------------
(***************************************************************************)
(* Properties of the order lifecycle (Spec).                               *)
(***************************************************************************)
\* C14: in every state reachable by add, remove, finalize and attach-details
\* requests run one at a time, every order whose status is not 'active' has
\* total_amount equal to the sum of sale_price * quantity over its lines, and every
\* 'active' order has total_amount 0, orders moved to 'payment' directly from
\* 'active' included.
C14_TotalsAuthoritative ==
    \A o \in DOMAIN orders :
        IF orders[o].status = "active"
        THEN orders[o].total_amount = 0
        ELSE orders[o].total_amount = calculate_total_amount(lines, o)

\* the position of a status on the path active -> pending -> payment
Rank(status) ==
    CASE status = "active" -> 0
      [] status = "pending" -> 1
      [] status = "payment" -> 2

\* C16: an order's status only moves forward along active -> pending -> payment:
\* no order that is 'pending' or 'payment' becomes 'active' again, and no order
\* that is 'payment' becomes 'pending'.
C16_StatusForward ==
    [][\A o \in DOMAIN orders \cap DOMAIN orders' :
          Rank(orders[o].status) <= Rank(orders'[o].status)]_vars

\* an order that went active -> pending -> payment: its total was computed by
\* finalize and attach-details has just answered for it
C16_Witness ==
    /\ last.op = "attach" /\ last.status = 200
    /\ last.orderId \in DOMAIN orders
    /\ orders[last.orderId].status = "payment"
    /\ orders[last.orderId].total_amount > 0

\* C17: after any sequence of add-to-basket and remove-from-basket requests, for
\* any integer count the request carries (the add request's count defaults to 0
\* when absent), every BasketLine that exists has quantity greater than 0.
C17_PositiveQuantity == \A l \in DOMAIN lines : lines[l].quantity > 0

C19_FinalizeStep(req) ==
    LET o == First(ActiveOrders(KnownCustomer(req)))
    IN  last'.op = "finalize" /\ o # None /\ OrderAPIView_post(req) =>
            /\ last'.status = 200
            /\ last'.orderId = o
            /\ orders'[o].status = "pending"

\* C19: finalize resolves the caller to the same customer identity as
\* add-to-basket does: for every caller, authenticated or anonymous with a session
\* token, a finalize that follows a successful add-to-basket by the same caller
\* finds the active order that the add wrote to and moves it to 'pending'.
C19_FinalizeSameIdentity == [][\A req \in Requests : C19_FinalizeStep(req)]_vars

----------------------------------------------------------------------------
(***************************************************************************)
(* Properties of concurrent add, remove and finalize (SpecRace).           *)
(***************************************************************************)
\* no request is in progress
Quiescent == \A p \in Workers : procs[p].pc \in {"idle", "done"}

\* every pending order carries the total of its lines
PendingTotalsRight ==
    \A o \in DOMAIN orders :
        orders[o].status = "pending" =>
            orders[o].total_amount = calculate_total_amount(lines, o)

\* a step writes Basket rows only under orders that are 'active' when it is taken
WritesOnlyActive ==
    \A l \in DOMAIN lines' :
        (l \notin DOMAIN lines \/ lines'[l] # lines[l]) =>
            /\ lines'[l].order \in DOMAIN orders
            /\ orders[lines'[l].order].status = "active"

\* C15: add, remove and finalize on the same order are linearizable: when an add
\* or a remove runs concurrently with a finalize of the same customer's active
\* order, a 'pending' order never ends with a total_amount that differs from the
\* sum of sale_price * quantity over its lines, and no line is written to an order
\* that has already left 'active'.
C15_Linearizable ==
    [](Quiescent => PendingTotalsRight) /\ [][WritesOnlyActive]_vars

\* C18: whenever no request is in progress, no order in status 'active' has zero
\* BasketLines, and under a concurrent add-to-basket and remove-to-zero on the same
\* order the line of a served add (of an item no remove names) is not lost with a
\* deleted order.
C18_NoEmptyActiveNoLostLine ==
    Quiescent =>
        /\ \A o \in DOMAIN orders : orders[o].status = "active" => LinesOf(o) # {}
        /\ \A p \in Workers :
              /\ procs[p].pc = "done" /\ procs[p].op = "add"
              /\ procs[p].status = 201 /\ procs[p].id \notin RaceRemoveIds
              => LinesFor(procs[p].order, procs[p].id) # {}

============================================================================
